---- MODULE Spec2Model ----
(***************************************************************************)
(* ObsidianService (src/src/obsidian-service.ts): the note store           *)
(* (readNote, createNote, updateNote), the path guard (getFullPath) and    *)
(* the search engine (searchNotes), over a POSIX file tree.                 *)
(*                                                                         *)
(* A JavaScript string is a sequence of UTF-16 code units (integers), a    *)
(* file's content a sequence of bytes; paths are strings.                  *)
(*                                                                         *)
(* Spec runs the calls one after the other, each a whole call; SpecConc    *)
(* runs calls concurrently, one file-system call at a time.                *)
(***************************************************************************)
EXTENDS Integers, Sequences, FiniteSets, TLC

VARIABLES fs, clock, last, written, tasks

vars == <<fs, clock, last, written, tasks>>

(***************************************************************************)
(* Strings                                                                 *)
(***************************************************************************)

\* code unit of each character the model's literals are written with
Ord ==
  ("a" :> 97) @@ ("b" :> 98) @@ ("d" :> 100) @@ ("e" :> 101) @@ ("m" :> 109)
  @@ ("t" :> 116) @@ ("v" :> 118) @@ ("w" :> 119) @@ ("x" :> 120)
  @@ ("A" :> 65) @@ ("B" :> 66) @@ ("T" :> 84) @@ ("X" :> 88)
  @@ ("/" :> 47) @@ ("." :> 46) @@ ("#" :> 35) @@ ("-" :> 45) @@ ("+" :> 43)
  @@ ("[" :> 91) @@ ("(" :> 40) @@ ("\\" :> 92) @@ (" " :> 32) @@ ("," :> 44)
  @@ ("\n" :> 10) @@ ("HI" :> 55357) @@ ("LO" :> 56832) @@ ("FFFD" :> 65533)

\* the string written with the characters t
Str(t) == [i \in 1..Len(t) |-> Ord[t[i]]]

Slash == Ord["/"]
Dot == Ord["."]
Hash == Ord["#"]
Newline == Ord["\n"]

Max(a, b) == IF a >= b THEN a ELSE b
Min(a, b) == IF a <= b THEN a ELSE b

\* s.slice(a, b) with 0-based a (inclusive) and b (exclusive), 0 <= a, b
Slice(s, a, b) == SubSeq(s, a + 1, Min(b, Len(s)))

\* s.startsWith(p)
StartsWith(s, p) == Len(p) <= Len(s) /\ SubSeq(s, 1, Len(p)) = p

\* s.endsWith(p)
EndsWith(s, p) == Len(p) <= Len(s) /\ SubSeq(s, Len(s) - Len(p) + 1, Len(s)) = p

\* s.includes(p)
Includes(s, p) == \E i \in 0..(Len(s) - Len(p)) : SubSeq(s, i + 1, i + Len(p)) = p

\* String.prototype.toLowerCase on one code unit (the Latin capitals)
LowerUnit(c) == IF c >= 65 /\ c <= 90 THEN c + 32 ELSE c

\* toLowerCase left out
ToLowerCase_identity(s) == s

\* s.toLowerCase()
ToLowerCase(s) == [i \in 1..Len(s) |-> LowerUnit(s[i])]

\* s.split(sep) for a one-unit separator: the pieces between separators
RECURSIVE SplitFrom(_, _, _, _)
SplitFrom(s, sep, i, cur) ==
  IF i > Len(s) THEN <<cur>>
  ELSE IF s[i] = sep THEN <<cur>> \o SplitFrom(s, sep, i + 1, <<>>)
  ELSE SplitFrom(s, sep, i + 1, Append(cur, s[i]))

Split(s, sep) == SplitFrom(s, sep, 1, <<>>)

\* parts.join(sep) for a string separator
RECURSIVE Join(_, _)
Join(parts, sep) ==
  IF Len(parts) = 0 THEN <<>>
  ELSE IF Len(parts) = 1 THEN parts[1]
  ELSE parts[1] \o sep \o Join(Tail(parts), sep)

(***************************************************************************)
(* UTF-8, the encoding of writeFile(.., 'utf-8') and readFile(.., 'utf-8') *)
(***************************************************************************)

IsHighSurrogate(c) == c >= 55296 /\ c <= 56319
IsLowSurrogate(c) == c >= 56320 /\ c <= 57343

\* the bytes of one code point
EncodeCodePoint(cp) ==
  IF cp < 128 THEN <<cp>>
  ELSE IF cp < 2048 THEN <<192 + (cp \div 64), 128 + (cp % 64)>>
  ELSE IF cp < 65536
    THEN <<224 + (cp \div 4096), 128 + ((cp \div 64) % 64), 128 + (cp % 64)>>
  ELSE <<240 + (cp \div 262144), 128 + ((cp \div 4096) % 64),
         128 + ((cp \div 64) % 64), 128 + (cp % 64)>>

\* Buffer.from(s, 'utf-8'): a surrogate pair is one code point, an unpaired
\* surrogate is written as U+FFFD
RECURSIVE Utf8EncodeFrom(_, _)
Utf8EncodeFrom(s, i) ==
  IF i > Len(s) THEN <<>>
  ELSE IF IsHighSurrogate(s[i]) /\ i < Len(s) /\ IsLowSurrogate(s[i + 1])
    THEN EncodeCodePoint(65536 + (s[i] - 55296) * 1024 + (s[i + 1] - 56320))
         \o Utf8EncodeFrom(s, i + 2)
  ELSE IF IsHighSurrogate(s[i]) \/ IsLowSurrogate(s[i])
    THEN EncodeCodePoint(65533) \o Utf8EncodeFrom(s, i + 1)
  ELSE EncodeCodePoint(s[i]) \o Utf8EncodeFrom(s, i + 1)

Utf8Encode(s) == Utf8EncodeFrom(s, 1)

IsContinuation(b, i) == i <= Len(b) /\ b[i] >= 128 /\ b[i] <= 191

\* the code units of one code point
CodeUnits(cp) ==
  IF cp < 65536 THEN <<cp>>
  ELSE <<55296 + ((cp - 65536) \div 1024), 56320 + ((cp - 65536) % 1024)>>

\* buffer.toString('utf-8'): a byte that starts no well-formed sequence is
\* read as U+FFFD
RECURSIVE Utf8DecodeFrom(_, _)
Utf8DecodeFrom(b, i) ==
  IF i > Len(b) THEN <<>>
  ELSE IF b[i] < 128 THEN <<b[i]>> \o Utf8DecodeFrom(b, i + 1)
  ELSE IF b[i] >= 194 /\ b[i] <= 223 /\ IsContinuation(b, i + 1)
    THEN CodeUnits((b[i] - 192) * 64 + (b[i + 1] - 128)) \o Utf8DecodeFrom(b, i + 2)
  ELSE IF b[i] >= 224 /\ b[i] <= 239 /\ IsContinuation(b, i + 1) /\ IsContinuation(b, i + 2)
    THEN CodeUnits((b[i] - 224) * 4096 + (b[i + 1] - 128) * 64 + (b[i + 2] - 128))
         \o Utf8DecodeFrom(b, i + 3)
  ELSE IF b[i] >= 240 /\ b[i] <= 244 /\ IsContinuation(b, i + 1) /\ IsContinuation(b, i + 2)
          /\ IsContinuation(b, i + 3)
    THEN CodeUnits((b[i] - 240) * 262144 + (b[i + 1] - 128) * 4096
                   + (b[i + 2] - 128) * 64 + (b[i + 3] - 128))
         \o Utf8DecodeFrom(b, i + 4)
  ELSE <<65533>> \o Utf8DecodeFrom(b, i + 1)

Utf8Decode(b) == Utf8DecodeFrom(b, 1)

(***************************************************************************)
(* Paths (node:path, POSIX)                                                *)
(***************************************************************************)

DotDot == <<Dot, Dot>>

\* normalizeString: "" and "." segments are dropped, ".." removes the segment
\* before it and is dropped at the root
RECURSIVE NormalizeSegments(_, _, _)
NormalizeSegments(segs, i, acc) ==
  IF i > Len(segs) THEN acc
  ELSE IF segs[i] = <<>> \/ segs[i] = <<Dot>> THEN NormalizeSegments(segs, i + 1, acc)
  ELSE IF segs[i] = DotDot
    THEN NormalizeSegments(segs, i + 1,
                           IF Len(acc) = 0 THEN acc ELSE SubSeq(acc, 1, Len(acc) - 1))
  ELSE NormalizeSegments(segs, i + 1, Append(acc, segs[i]))

\* the segments of an absolute path
Segments(p) == NormalizeSegments(Split(p, Slash), 1, <<>>)

\* the absolute path with the segments segs
FromSegments(segs) == <<Slash>> \o Join(segs, <<Slash>>)

IsAbsolute(p) == Len(p) > 0 /\ p[1] = Slash

\* path.resolve(from, to) for an absolute from
PathResolve(from, to) ==
  IF IsAbsolute(to) THEN FromSegments(Segments(to))
  ELSE FromSegments(Segments(from \o <<Slash>> \o to))

\* path.join(dir, name)
PathJoin(dir, name) == FromSegments(Segments(dir \o <<Slash>> \o name))

\* path.dirname(p) for an absolute normalized p
DirnameOf(segs) ==
  IF Len(segs) = 0 THEN <<Slash>> ELSE FromSegments(SubSeq(segs, 1, Len(segs) - 1))

Dirname(p) == DirnameOf(Segments(p))

\* path.basename(p)
LastOf(segs) == segs[Len(segs)]

Basename(p) == LastOf(Split(p, Slash))

RECURSIVE CommonPrefixLen(_, _, _)
CommonPrefixLen(a, b, k) ==
  IF k < Len(a) /\ k < Len(b) /\ a[k + 1] = b[k + 1] THEN CommonPrefixLen(a, b, k + 1) ELSE k

\* path.relative(from, to) for absolute paths
RelativeOf(f, t, k) ==
  Join([i \in 1..(Len(f) - k) |-> DotDot] \o SubSeq(t, k + 1, Len(t)), <<Slash>>)

PathRelative(from, to) ==
  RelativeOf(Segments(from), Segments(to), CommonPrefixLen(Segments(from), Segments(to), 0))

(***************************************************************************)
(* The file tree: fs maps each existing absolute path to its node.  A      *)
(* directory lists its entries in the order readdir reports them.          *)
(***************************************************************************)

Root == <<Slash>>

DirNode(t) ==
  [kind |-> "dir", bytes |-> <<>>, readable |-> TRUE, birthtime |-> t, mtime |-> t,
   entries |-> <<>>]

FileNode(b, r, t) ==
  [kind |-> "file", bytes |-> b, readable |-> r, birthtime |-> t, mtime |-> t,
   entries |-> <<>>]

IsDir(f, p) == p \in DOMAIN f /\ f[p].kind = "dir"
IsFile(f, p) == p \in DOMAIN f /\ f[p].kind = "file"

\* the tree f with node n added at p, a new entry of its directory
AddNode(f, p, n) ==
  [q \in DOMAIN f \cup {p} |->
     IF q = p THEN n
     ELSE IF q = Dirname(p) THEN [f[q] EXCEPT !.entries = Append(@, Basename(p))]
     ELSE f[q]]

\* fs.access(p) and fs.access(p, R_OK): TRUE when it resolves
FsAccess(f, p, rOk) == p \in DOMAIN f /\ (rOk => f[p].readable)

\* fs.readFile(p, 'utf-8')
FsReadFile(f, p) ==
  IF IsFile(f, p) /\ f[p].readable
  THEN [ok |-> TRUE, text |-> Utf8Decode(f[p].bytes), code |-> ""]
  ELSE [ok |-> FALSE, text |-> <<>>,
        code |-> IF p \notin DOMAIN f THEN "ENOENT"
                 ELSE IF f[p].kind = "dir" THEN "EISDIR" ELSE "EACCES"]

\* fs.writeFile opened with the flag 'a': an existing file is appended to
FsWriteFile_append(f, p, text, t) ==
  IF IsFile(f, p)
  THEN [ok |-> TRUE, code |-> "",
        fs |-> [f EXCEPT ![p].bytes = @ \o Utf8Encode(text), ![p].mtime = t]]
  ELSE IF p \in DOMAIN f THEN [ok |-> FALSE, code |-> "EISDIR", fs |-> f]
  ELSE IF IsDir(f, Dirname(p))
  THEN [ok |-> TRUE, code |-> "", fs |-> AddNode(f, p, FileNode(Utf8Encode(text), TRUE, t))]
  ELSE [ok |-> FALSE, code |-> "ENOENT", fs |-> f]

\* fs.writeFile(p, text, 'utf-8') at time t: the file is created or truncated
FsWriteFile(f, p, text, t) ==
  IF IsFile(f, p)
  THEN [ok |-> TRUE, code |-> "",
        fs |-> [f EXCEPT ![p].bytes = Utf8Encode(text), ![p].mtime = t]]
  ELSE IF p \in DOMAIN f THEN [ok |-> FALSE, code |-> "EISDIR", fs |-> f]
  ELSE IF IsDir(f, Dirname(p))
  THEN [ok |-> TRUE, code |-> "", fs |-> AddNode(f, p, FileNode(Utf8Encode(text), TRUE, t))]
  ELSE [ok |-> FALSE, code |-> "ENOENT", fs |-> f]

\* fs.mkdir(p, { recursive: true }) at time t
RECURSIVE FsMkdirRecursive(_, _, _)
RECURSIVE FsMkdirUnder(_, _, _, _)
FsMkdirRecursive(f, p, t) ==
  IF p \in DOMAIN f THEN [ok |-> f[p].kind = "dir", fs |-> f]
  ELSE FsMkdirUnder(f, p, t, FsMkdirRecursive(f, Dirname(p), t))

\* p made in its directory, once up has made that directory
FsMkdirUnder(f, p, t, up) ==
  IF up.ok THEN [ok |-> TRUE, fs |-> AddNode(up.fs, p, DirNode(t))]
  ELSE [ok |-> FALSE, fs |-> f]

\* fs.stat(p)
FsStat(f, p) ==
  IF p \in DOMAIN f
  THEN [ok |-> TRUE, size |-> Len(f[p].bytes), birthtime |-> f[p].birthtime,
        mtime |-> f[p].mtime]
  ELSE [ok |-> FALSE, size |-> 0, birthtime |-> 0, mtime |-> 0]

\* one file-system call of an invocation, as recorded in its log
Call(name, p) == [call |-> name, path |-> p]

(***************************************************************************)
(* Errors: the message is the prefixes, outermost first, then the detail   *)
(***************************************************************************)

NoError == [prefix |-> <<>>, detail |-> <<>>]

Error(what, detail) == [prefix |-> <<what>>, detail |-> detail]

\* new Error(`${what}: ${e.message}`)
Wrap(what, e) == [prefix |-> <<what>> \o e.prefix, detail |-> e.detail]

IsError(e) == e.prefix # <<>>

AccessDenied == Error("Access denied: Path is outside vault directory", <<>>)

(***************************************************************************)
(* ObsidianService: the path guard and the note store                      *)
(***************************************************************************)

\* the vaultPath the service is constructed with
VaultPath == Str(<<"/", "v">>)

\* what an invocation leaves: its error (or NoError), the value it returns,
\* the file-system calls it made, in order, and the tree after it
Outcome(e, text, results, calls, f) ==
  [err |-> e, text |-> text, results |-> results, calls |-> calls, fs |-> f]

\* the invocation throws `${what}: ${e.message}` from its catch block
Failed(what, e, calls, f) == Outcome(Wrap(what, e), <<>>, <<>>, calls, f)

\* getFullPath throws, before the try block of the method
Denied(f) == Outcome(AccessDenied, <<>>, <<>>, <<>>, f)

\* getFullPath: the resolved path, refused unless the vault's path is a
\* prefix of it as a string
getFullPath(filePath) ==
  [ok |-> StartsWith(PathResolve(VaultPath, filePath), PathResolve(VaultPath, <<>>)),
   path |-> PathResolve(VaultPath, filePath)]

\* validateFileAccess with the access check lost
validateFileAccess_skipped(f, fullPath) == NoError

\* validateFileAccess: fs.access(fullPath, R_OK)
validateFileAccess(f, fullPath) ==
  IF FsAccess(f, fullPath, TRUE) THEN NoError ELSE Error("File not accessible", fullPath)

\* fileExists with the access check lost: nothing is ever found
fileExists_never(f, fullPath) == FALSE

\* fileExists: fs.access(fullPath)
fileExists(f, fullPath) == FsAccess(f, fullPath, FALSE)

\* ensureDirectoryExists: fs.mkdir(dirPath, { recursive: true })
ensureDirectoryMade(dirPath, m) ==
  [err |-> IF m.ok THEN NoError ELSE Error("Failed to create directory", dirPath),
   fs |-> m.fs]

ensureDirectoryExists(f, dirPath, t) ==
  ensureDirectoryMade(dirPath, FsMkdirRecursive(f, dirPath, t))

\* the first n file-system calls of readNote
ReadCalls(fullPath, n) ==
  SubSeq(<<Call("access", fullPath), Call("readFile", fullPath)>>, 1, n)

\* readNote from its try block on
readNoteTry(f, fullPath, access, read) ==
  IF IsError(access) THEN Failed("Failed to read note", access, ReadCalls(fullPath, 1), f)
  ELSE IF ~read.ok
    THEN Failed("Failed to read note", Error(read.code, fullPath), ReadCalls(fullPath, 2), f)
  ELSE Outcome(NoError, read.text, <<>>, ReadCalls(fullPath, 2), f)

\* readNote after getFullPath
readNoteAt(f, full) ==
  IF ~full.ok THEN Denied(f)
  ELSE readNoteTry(f, full.path, validateFileAccess(f, full.path), FsReadFile(f, full.path))

readNote(f, filePath) == readNoteAt(f, getFullPath(filePath))

\* the first n file-system calls of createNote
CreateCalls(fullPath, n) ==
  SubSeq(<<Call("mkdir", Dirname(fullPath)), Call("access", fullPath),
           Call("writeFile", fullPath)>>, 1, n)

\* createNote after its writeFile
createNoteWritten(fullPath, write) ==
  IF ~write.ok
  THEN Failed("Failed to create note", Error(write.code, fullPath), CreateCalls(fullPath, 3),
              write.fs)
  ELSE Outcome(NoError, <<>>, <<>>, CreateCalls(fullPath, 3), write.fs)

\* createNote from its try block on, dir the outcome of ensureDirectoryExists
createNoteTry(filePath, content, t, fullPath, dir) ==
  IF IsError(dir.err)
  THEN Failed("Failed to create note", dir.err, CreateCalls(fullPath, 1), dir.fs)
  ELSE IF fileExists(dir.fs, fullPath)
    THEN Failed("Failed to create note", Error("File already exists", filePath),
                CreateCalls(fullPath, 2), dir.fs)
  ELSE createNoteWritten(fullPath, FsWriteFile(dir.fs, fullPath, content, t))

\* createNote with getFullPath called inside its try block
createNoteAt_guardInTry(f, filePath, content, t, full) ==
  IF ~full.ok THEN Failed("Failed to create note", AccessDenied, <<>>, f)
  ELSE createNoteTry(filePath, content, t, full.path,
                     ensureDirectoryExists(f, Dirname(full.path), t))

\* createNote after getFullPath
createNoteAt(f, filePath, content, t, full) ==
  IF ~full.ok THEN Denied(f)
  ELSE createNoteTry(filePath, content, t, full.path,
                     ensureDirectoryExists(f, Dirname(full.path), t))

createNote(f, filePath, content, t) ==
  createNoteAt(f, filePath, content, t, getFullPath(filePath))

\* the first n file-system calls of updateNote
UpdateCalls(fullPath, n) ==
  SubSeq(<<Call("access", fullPath), Call("writeFile", fullPath)>>, 1, n)

\* updateNote from its try block on
updateNoteTry(f, fullPath, access, write) ==
  IF IsError(access) THEN Failed("Failed to update note", access, UpdateCalls(fullPath, 1), f)
  ELSE IF ~write.ok
    THEN Failed("Failed to update note", Error(write.code, fullPath), UpdateCalls(fullPath, 2),
                write.fs)
  ELSE Outcome(NoError, <<>>, <<>>, UpdateCalls(fullPath, 2), write.fs)

\* updateNote after getFullPath
updateNoteAt(f, content, t, full) ==
  IF ~full.ok THEN Denied(f)
  ELSE updateNoteTry(f, full.path, validateFileAccess(f, full.path),
                     FsWriteFile(f, full.path, content, t))

updateNote(f, filePath, content, t) == updateNoteAt(f, content, t, getFullPath(filePath))

(***************************************************************************)
(* Regular expressions (new RegExp(source, 'gi') and String.prototype.match) *)
(* for sources written with literals, '.', '\w', '\b', a postfix '+', and  *)
(* the sources that do not compile: an unterminated '[' or '(', a leading  *)
(* '+', a trailing '\'.                                                    *)
(***************************************************************************)

IsWordChar(c) ==
  (c >= 48 /\ c <= 57) \/ (c >= 65 /\ c <= 90) \/ (c >= 97 /\ c <= 122) \/ c = 95

IsLineTerminator(c) == c \in {10, 13, 8232, 8233}

Item(kind, c) == [kind |-> kind, c |-> c, plus |-> FALSE]

\* the items of source from position i on, after the items acc
RECURSIVE RegexParseFrom(_, _, _)
RegexParseFrom(source, i, acc) ==
  IF i > Len(source) THEN [ok |-> TRUE, items |-> acc]
  ELSE IF source[i] = Ord["\\"]
    THEN IF i = Len(source) THEN [ok |-> FALSE, items |-> <<>>]
         ELSE IF source[i + 1] = Ord["w"]
           THEN RegexParseFrom(source, i + 2, Append(acc, Item("word", 0)))
         ELSE IF source[i + 1] = Ord["b"]
           THEN RegexParseFrom(source, i + 2, Append(acc, Item("boundary", 0)))
         ELSE RegexParseFrom(source, i + 2, Append(acc, Item("char", source[i + 1])))
  ELSE IF source[i] = Ord["["] \/ source[i] = Ord["("]
    THEN [ok |-> FALSE, items |-> <<>>]
  ELSE IF source[i] = Ord["+"]
    THEN IF Len(acc) = 0 \/ acc[Len(acc)].plus \/ acc[Len(acc)].kind = "boundary"
         THEN [ok |-> FALSE, items |-> <<>>]
         ELSE RegexParseFrom(source, i + 1, [acc EXCEPT ![Len(acc)].plus = TRUE])
  ELSE IF source[i] = Dot
    THEN RegexParseFrom(source, i + 1, Append(acc, Item("any", 0)))
  ELSE RegexParseFrom(source, i + 1, Append(acc, Item("char", source[i])))

\* new RegExp(source, 'gi'): ok is FALSE where it throws a SyntaxError
RegexParse(source) == RegexParseFrom(source, 1, <<>>)

\* one item against one code unit, ignoring case
AtomMatches(item, c) ==
  CASE item.kind = "char" -> LowerUnit(c) = LowerUnit(item.c)
    [] item.kind = "any" -> ~IsLineTerminator(c)
    [] item.kind = "word" -> IsWordChar(c)
    [] item.kind = "tagchar" -> IsWordChar(c) \/ c = Ord["-"]
    [] OTHER -> FALSE

\* \b before position i of text
AtBoundary(text, i) ==
  (i > 1 /\ IsWordChar(text[i - 1])) # (i <= Len(text) /\ IsWordChar(text[i]))

\* how many units from position i on the item matches in a row
RECURSIVE RunLength(_, _, _)
RunLength(item, text, i) ==
  IF i <= Len(text) /\ AtomMatches(item, text[i]) THEN 1 + RunLength(item, text, i + 1)
  ELSE 0

\* the position after the match of items k.. that starts at position i, the
\* longest repetitions tried first; 0 when there is none
RECURSIVE MatchHere(_, _, _, _)
RECURSIVE MatchRepeat(_, _, _, _, _)
MatchHere(items, k, text, i) ==
  IF k > Len(items) THEN i
  ELSE IF items[k].kind = "boundary"
    THEN IF AtBoundary(text, i) THEN MatchHere(items, k + 1, text, i) ELSE 0
  ELSE IF items[k].plus
    THEN MatchRepeat(items, k, text, i, RunLength(items[k], text, i))
  ELSE IF i <= Len(text) /\ AtomMatches(items[k], text[i])
    THEN MatchHere(items, k + 1, text, i + 1)
  ELSE 0

MatchRepeat(items, k, text, i, n) ==
  IF n = 0 THEN 0
  ELSE IF MatchHere(items, k + 1, text, i + n) # 0 THEN MatchHere(items, k + 1, text, i + n)
  ELSE MatchRepeat(items, k, text, i, n - 1)

\* text.match(regex) with the g flag: every match, left to right, none
\* overlapping; the empty sequence stands for null
RECURSIVE MatchAllFrom(_, _, _)
RECURSIVE MatchAllAt(_, _, _, _)
MatchAllFrom(items, text, i) ==
  IF i > Len(text) + 1 THEN <<>>
  ELSE MatchAllAt(items, text, i, MatchHere(items, 1, text, i))

\* the matches from position i on, end the position after the match at i
MatchAllAt(items, text, i, end) ==
  IF end = 0 THEN MatchAllFrom(items, text, i + 1)
  ELSE <<SubSeq(text, i, end - 1)>> \o MatchAllFrom(items, text, IF end = i THEN i + 1 ELSE end)

MatchAll(items, text) == MatchAllFrom(items, text, 1)

\* Array.from(new Set(xs)): the first occurrence of each element
RECURSIVE Distinct(_, _)
Distinct(xs, acc) ==
  IF Len(xs) = 0 THEN acc
  ELSE IF \E i \in 1..Len(acc) : acc[i] = Head(xs) THEN Distinct(Tail(xs), acc)
  ELSE Distinct(Tail(xs), Append(acc, Head(xs)))

(***************************************************************************)
(* ObsidianService: the search engine                                      *)
(***************************************************************************)

Undefined == [defined |-> FALSE, value |-> <<>>]
Defined(v) == [defined |-> TRUE, value |-> v]

\* !x for a string or undefined
Falsy(x) == ~x.defined \/ x.value = <<>>

MdExtension == Str(<<".", "m", "d">>)

\* what walkDir has gathered: the files pushed and the readdir calls made
Walked(ok, code, files, calls) == [ok |-> ok, code |-> code, files |-> files, calls |-> calls]

\* an entry's walk followed by the walk of the entries after it
WalkedThen(here, rest) ==
  IF ~here.ok THEN here
  ELSE Walked(rest.ok, rest.code, here.files \o rest.files, here.calls \o rest.calls)

\* getAllMarkdownFiles: walkDir over the entries of dir from the i-th on;
\* the relative paths of the .md files in readdir order, directories descended
RECURSIVE walkDir(_, _)
RECURSIVE walkEntries(_, _, _)
RECURSIVE walkEntry(_, _, _)
walkDir(f, dir) ==
  IF IsDir(f, dir)
  THEN WalkedThen(Walked(TRUE, "", <<>>, <<Call("readdir", dir)>>), walkEntries(f, dir, 1))
  ELSE Walked(FALSE, IF dir \in DOMAIN f THEN "ENOTDIR" ELSE "ENOENT", <<>>,
              <<Call("readdir", dir)>>)

walkEntries(f, dir, i) ==
  IF i > Len(f[dir].entries) THEN Walked(TRUE, "", <<>>, <<>>)
  ELSE WalkedThen(walkEntry(f, f[dir].entries[i], PathJoin(dir, f[dir].entries[i])),
                  walkEntries(f, dir, i + 1))

\* walkDir's loop without the descent into directories
walkEntry_flat(f, name, fullPath) ==
  IF IsFile(f, fullPath) /\ EndsWith(name, MdExtension)
  THEN Walked(TRUE, "", <<PathRelative(VaultPath, fullPath)>>, <<>>)
  ELSE Walked(TRUE, "", <<>>, <<>>)

\* the body of walkDir's loop for the entry name at fullPath
walkEntry(f, name, fullPath) ==
  IF IsDir(f, fullPath) THEN walkDir(f, fullPath)
  ELSE IF IsFile(f, fullPath) /\ EndsWith(name, MdExtension)
    THEN Walked(TRUE, "", <<PathRelative(VaultPath, fullPath)>>, <<>>)
  ELSE Walked(TRUE, "", <<>>, <<>>)

getAllMarkdownFiles(f) == walkDir(f, VaultPath)

\* getContextAroundMatch with the end of the slice one line short
getContextAroundMatch_short(lines, matchIndex, contextLines) ==
  Join(Slice(lines, Max(0, matchIndex - contextLines),
             Min(Len(lines), matchIndex + contextLines)),
       <<Newline>>)

\* getContextAroundMatch, matchIndex 0-based
getContextAroundMatch(lines, matchIndex, contextLines) ==
  Join(Slice(lines, Max(0, matchIndex - contextLines),
             Min(Len(lines), matchIndex + contextLines + 1)),
       <<Newline>>)

\* /#[\w-]+/g
TagPattern == <<Item("char", Hash), [Item("tagchar", 0) EXCEPT !.plus = TRUE]>>

\* extractTags: the distinct matches of the tag pattern
extractTags(content) == Distinct(MatchAll(TagPattern, content), <<>>)

\* isMatch, matchedLineNumbers and matchedContent of processFileForSearch
Matching(isMatch, numbers, matchedContent) ==
  [isMatch |-> isMatch, matchedLineNumbers |-> numbers, matchedContent |-> matchedContent]

NoMatch == Matching(FALSE, <<>>, Undefined)

\* the loop of the 'content' case from line index i (0-based) on
RECURSIVE contentLoop(_, _, _, _)
contentLoop(lines, query, i, acc) ==
  IF i >= Len(lines) THEN acc
  ELSE IF Includes(ToLowerCase(lines[i + 1]), ToLowerCase(query))
    THEN contentLoop(lines, query, i + 1,
           Matching(TRUE, Append(acc.matchedLineNumbers, i + 1),
                    IF Falsy(acc.matchedContent)
                    THEN Defined(getContextAroundMatch(lines, i, 1))
                    ELSE acc.matchedContent))
  ELSE contentLoop(lines, query, i + 1, acc)

\* the source of the 'tag' case's pattern
TagSource(query) ==
  <<Hash>> \o (IF Len(query) > 0 /\ query[1] = Hash THEN Tail(query) ELSE query)
  \o Str(<<"\\", "b">>)

CommaSpace == Str(<<",", " ">>)

\* the outcome of the switch: the error it throws, if any, and the match
Switched(thrown, m) == [thrown |-> thrown, m |-> m]

\* the 'tag' case after content.match
tagMatched(tagMatches) ==
  IF Len(tagMatches) > 0
  THEN Switched(NoError, Matching(TRUE, <<>>, Defined(Join(tagMatches, CommaSpace))))
  ELSE Switched(NoError, NoMatch)

\* the 'tag' case: new RegExp throws when the source does not compile
tagCase(content, source, re) ==
  IF ~re.ok THEN Switched(Error("Invalid regular expression", source), NoMatch)
  ELSE tagMatched(MatchAll(re.items, content))

\* the 'regex' case keeping each occurrence text once
regexMatched_distinct(regexMatches) ==
  IF Len(regexMatches) > 0
  THEN Switched(NoError,
                Matching(TRUE, <<>>,
                         Defined(Join(Slice(Distinct(regexMatches, <<>>), 0, 3), CommaSpace))))
  ELSE Switched(NoError, NoMatch)

\* the 'regex' case after content.match
regexMatched(regexMatches) ==
  IF Len(regexMatches) > 0
  THEN Switched(NoError,
                Matching(TRUE, <<>>, Defined(Join(Slice(regexMatches, 0, 3), CommaSpace))))
  ELSE Switched(NoError, NoMatch)

\* the 'regex' case
regexCase(content, query, re) ==
  IF ~re.ok THEN Switched(Error("Invalid regex pattern", query), NoMatch)
  ELSE regexMatched(MatchAll(re.items, content))

\* the switch of processFileForSearch
matchFile(fileName, content, query, searchType) ==
  CASE searchType = "filename" ->
         Switched(NoError,
                  Matching(Includes(ToLowerCase(fileName), ToLowerCase(query)), <<>>, Undefined))
    [] searchType = "content" ->
         Switched(NoError, contentLoop(Split(content, Newline), query, 0, NoMatch))
    [] searchType = "tag" -> tagCase(content, TagSource(query), RegexParse(TagSource(query)))
    [] searchType = "regex" -> regexCase(content, query, RegexParse(query))

\* what processFileForSearch leaves: its error, or its result (found is
\* FALSE for null), and the file-system calls it made
Processed(e, found, result, calls) ==
  [err |-> e, found |-> found, result |-> result, calls |-> calls]

\* the first n file-system calls of processFileForSearch
ProcessCalls(fullPath, n) ==
  SubSeq(<<Call("stat", fullPath), Call("readFile", fullPath)>>, 1, n)

\* the SearchResult
SearchResult(filePath, stats, content, m) ==
  [filePath |-> filePath,
   fileName |-> Basename(filePath),
   matchedContent |-> m.matchedContent,
   createdAt |-> stats.birthtime,
   updatedAt |-> stats.mtime,
   fileSize |-> stats.size,
   tags |-> extractTags(content),
   matchedLineNumbers |->
     IF Len(m.matchedLineNumbers) > 0 THEN Defined(m.matchedLineNumbers) ELSE Undefined]

\* processFileForSearch after its switch
processFileMatched(filePath, fullPath, stats, content, switched) ==
  IF IsError(switched.thrown)
  THEN Processed(switched.thrown, FALSE, <<>>, ProcessCalls(fullPath, 2))
  ELSE IF ~switched.m.isMatch THEN Processed(NoError, FALSE, <<>>, ProcessCalls(fullPath, 2))
  ELSE Processed(NoError, TRUE, SearchResult(filePath, stats, content, switched.m),
                 ProcessCalls(fullPath, 2))

\* processFileForSearch after fs.stat and fs.readFile
processFileRead(filePath, query, searchType, fullPath, stats, read) ==
  IF ~stats.ok THEN Processed(Error("ENOENT", fullPath), FALSE, <<>>, ProcessCalls(fullPath, 1))
  ELSE IF ~read.ok
    THEN Processed(Error(read.code, fullPath), FALSE, <<>>, ProcessCalls(fullPath, 2))
  ELSE processFileMatched(filePath, fullPath, stats, read.text,
                          matchFile(Basename(filePath), read.text, query, searchType))

\* processFileForSearch after getFullPath
processFileAt(f, filePath, query, searchType, full) ==
  IF ~full.ok THEN Processed(AccessDenied, FALSE, <<>>, <<>>)
  ELSE processFileRead(filePath, query, searchType, full.path, FsStat(f, full.path),
                       FsReadFile(f, full.path))

processFileForSearch(f, filePath, query, searchType) ==
  processFileAt(f, filePath, query, searchType, getFullPath(filePath))

\* the loop of searchNotes over files from the i-th on
RECURSIVE searchLoop(_, _, _, _, _, _, _)
RECURSIVE searchStep(_, _, _, _, _, _, _, _)
searchLoop(f, files, i, query, searchType, results, calls) ==
  IF i > Len(files) THEN Outcome(NoError, <<>>, results, calls, f)
  ELSE searchStep(f, files, i, query, searchType, results, calls,
                  processFileForSearch(f, files[i], query, searchType))

\* the body of the loop skipping a document that processFileForSearch fails on
searchStep_skipping(f, files, i, query, searchType, results, calls, r) ==
  searchLoop(f, files, i + 1, query, searchType,
             IF ~IsError(r.err) /\ r.found THEN Append(results, r.result) ELSE results,
             calls \o r.calls)

\* the body of the loop, r what processFileForSearch leaves
searchStep(f, files, i, query, searchType, results, calls, r) ==
  IF IsError(r.err) THEN Failed("Search failed", r.err, calls \o r.calls, f)
  ELSE searchLoop(f, files, i + 1, query, searchType,
                  IF r.found THEN Append(results, r.result) ELSE results,
                  calls \o r.calls)

\* searchNotes making the vault directory when the walk finds none
searchFiles_ensured(f, query, searchType, walk) ==
  IF ~walk.ok THEN Outcome(NoError, <<>>, <<>>, walk.calls, FsMkdirRecursive(f, VaultPath, 1).fs)
  ELSE searchLoop(f, walk.files, 1, query, searchType, <<>>, walk.calls)

\* searchNotes after getAllMarkdownFiles
searchFiles(f, query, searchType, walk) ==
  IF ~walk.ok THEN Failed("Search failed", Error(walk.code, VaultPath), walk.calls, f)
  ELSE searchLoop(f, walk.files, 1, query, searchType, <<>>, walk.calls)

searchNotes(f, query, searchType) ==
  searchFiles(f, query, searchType, getAllMarkdownFiles(f))

(***************************************************************************)
(* The callers' inputs and the trees the service is started on             *)
(***************************************************************************)

\* the number of changes to the tree a behaviour makes
MaxClock == 2

P_a == Str(<<"a", ".", "m", "d">>)
P_dA == Str(<<"d", ".", "m", "d", "/", "A", ".", "m", "d">>)
P_d == Str(<<"d", ".", "m", "d">>)
P_sibling == Str(<<".", ".", "/", "v", "e", "/", "x", ".", "m", "d">>)
P_outside == Str(<<".", ".", "/", "w", "/", "x", ".", "m", "d">>)

\* filePath arguments: notes of the vault, a directory of it, a path into the
\* sibling directory /ve and a path into /w
Paths == {P_a, P_dA, P_d, P_sibling, P_outside}

C_tag == Str(<<"#", "t", "\n", "\n", "A">>)
C_astral == Str(<<"HI", "LO">>)
C_unpaired == Str(<<"LO", "a">>)

\* content arguments of the calls made one after the other
Contents == {C_astral, C_unpaired}

Q_empty == <<>>
Q_A == Str(<<"A">>)
Q_tag == Str(<<"#", "t">>)
Q_bracket == Str(<<"[">>)
Q_plus == Str(<<"a", "+">>)

\* query arguments
Queries == {Q_empty, Q_A, Q_tag, Q_bracket, Q_plus}

SearchTypes == {"filename", "content", "tag", "regex"}

\* a tree from its directories (each with its entries in readdir order) and
\* its files (each with its text and whether it can be read), all of time 0
Tree(dirs, files) ==
  [p \in DOMAIN dirs \cup DOMAIN files |->
     IF p \in DOMAIN dirs THEN [DirNode(0) EXCEPT !.entries = dirs[p]]
     ELSE FileNode(Utf8Encode(files[p].text), files[p].readable, 0)]

N_v == Str(<<"v">>)
N_ve == Str(<<"v", "e">>)
N_x == Str(<<"x", ".", "m", "d">>)
N_t == Str(<<"t">>)
N_A == Str(<<"A", ".", "m", "d">>)

\* no vault directory, only the directory /ve with a file
TreeNoVault ==
  Tree((Root :> <<N_ve>>) @@ (Str(<<"/", "v", "e">>) :> <<N_x>>),
       Str(<<"/", "v", "e", "/", "x", ".", "m", "d">>) :> [text |-> Q_A, readable |-> TRUE])

\* an empty vault, beside the directory /ve
TreeEmptyVault ==
  Tree((Root :> <<N_v, N_ve>>) @@ (Str(<<"/", "v">>) :> <<>>) @@ (Str(<<"/", "v", "e">>) :> <<N_x>>),
       Str(<<"/", "v", "e", "/", "x", ".", "m", "d">>) :> [text |-> Q_A, readable |-> TRUE])

\* a vault with a note, a file that is no note, and a directory d.md with an
\* empty note
TreeNotes ==
  Tree((Root :> <<N_v, N_ve>>) @@ (Str(<<"/", "v">>) :> <<N_t, P_a, P_d>>)
       @@ (Str(<<"/", "v", "/", "d", ".", "m", "d">>) :> <<N_A>>)
       @@ (Str(<<"/", "v", "e">>) :> <<N_x>>),
       (Str(<<"/", "v", "/", "a", ".", "m", "d">>)
          :> [text |-> Str(<<"x", "\n", "A", "\n", "\n", "a", " ", "#", "t">>), readable |-> TRUE])
       @@ (Str(<<"/", "v", "/", "t">>) :> [text |-> Q_A, readable |-> TRUE])
       @@ (Str(<<"/", "v", "/", "d", ".", "m", "d", "/", "A", ".", "m", "d">>)
          :> [text |-> <<>>, readable |-> TRUE])
       @@ (Str(<<"/", "v", "e", "/", "x", ".", "m", "d">>) :> [text |-> Q_A, readable |-> TRUE]))

\* a vault whose second note cannot be read
TreeUnreadable ==
  Tree((Root :> <<N_v, N_ve>>) @@ (Str(<<"/", "v">>) :> <<N_A, P_a>>)
       @@ (Str(<<"/", "v", "e">>) :> <<N_x>>),
       (Str(<<"/", "v", "/", "A", ".", "m", "d">>) :> [text |-> Q_A, readable |-> TRUE])
       @@ (Str(<<"/", "v", "/", "a", ".", "m", "d">>) :> [text |-> Q_tag, readable |-> FALSE])
       @@ (Str(<<"/", "v", "e", "/", "x", ".", "m", "d">>) :> [text |-> Q_A, readable |-> TRUE]))

\* a vault of two tagged notes, beside the directory /ve: one repeats the tag
\* #t, in both cases, the other carries the tag #t-x only
TreeTagged ==
  Tree((Root :> <<N_v, N_ve>>) @@ (Str(<<"/", "v">>) :> <<N_A, P_a>>)
       @@ (Str(<<"/", "v", "e">>) :> <<N_x>>),
       (Str(<<"/", "v", "/", "A", ".", "m", "d">>)
          :> [text |-> Str(<<"#", "t", " ", "#", "T", " ", "#", "t", " ", "#", "t">>),
              readable |-> TRUE])
       @@ (Str(<<"/", "v", "/", "a", ".", "m", "d">>)
          :> [text |-> Str(<<"#", "t", "-", "x">>), readable |-> TRUE])
       @@ (Str(<<"/", "v", "e", "/", "x", ".", "m", "d">>) :> [text |-> Q_A, readable |-> TRUE]))

Trees == {TreeNoVault, TreeEmptyVault, TreeNotes, TreeUnreadable, TreeTagged}

(***************************************************************************)
(* The state machine: one action per public method, each a whole call,     *)
(* the calls dispatched one after the other.  last records the call whose  *)
(* response is being returned: its arguments, the tree it started on (pre) *)
(* and its outcome.  written is a history variable: for each resolved path *)
(* the content argument of the latest createNote or updateNote on it that  *)
(* succeeded.  tasks holds the calls that run concurrently (SpecConc,      *)
(* below): there are none here.                                            *)
(***************************************************************************)

Record(op, filePath, content, query, searchType, pre, o) ==
  [op |-> op, path |-> filePath, content |-> content, query |-> query,
   searchType |-> searchType, pre |-> pre, err |-> o.err, text |-> o.text,
   results |-> o.results, calls |-> o.calls]

\* no call in flight on the tree f
Idle(f) == Record("none", <<>>, <<>>, <<>>, "", f, Outcome(NoError, <<>>, <<>>, <<>>, f))

Init ==
  /\ fs \in Trees
  /\ clock = 0
  /\ last = Idle(fs)
  /\ written = <<>>
  /\ tasks = <<>>

Advance(o) == clock' = IF o.fs # fs THEN clock + 1 ELSE clock

\* written once the call with outcome o has been given content for filePath
Written(o, filePath, content) ==
  IF IsError(o.err) THEN written
  ELSE [q \in DOMAIN written \cup {PathResolve(VaultPath, filePath)} |->
          IF q = PathResolve(VaultPath, filePath) THEN content ELSE written[q]]

ReadNote ==
  /\ last.op = "none"
  /\ \E p \in Paths :
       LET o == readNote(fs, p)
       IN /\ fs' = o.fs
          /\ Advance(o)
          /\ last' = Record("readNote", p, <<>>, <<>>, "", fs, o)
          /\ UNCHANGED <<written, tasks>>

CreateNote ==
  /\ last.op = "none"
  /\ clock < MaxClock
  /\ \E p \in Paths, c \in Contents :
       LET o == createNote(fs, p, c, clock + 1)
       IN /\ fs' = o.fs
          /\ Advance(o)
          /\ last' = Record("createNote", p, c, <<>>, "", fs, o)
          /\ written' = Written(o, p, c)
          /\ UNCHANGED tasks

UpdateNote ==
  /\ last.op = "none"
  /\ clock < MaxClock
  /\ \E p \in Paths, c \in Contents :
       LET o == updateNote(fs, p, c, clock + 1)
       IN /\ fs' = o.fs
          /\ Advance(o)
          /\ last' = Record("updateNote", p, c, <<>>, "", fs, o)
          /\ written' = Written(o, p, c)
          /\ UNCHANGED tasks

SearchNotes ==
  /\ last.op = "none"
  /\ \E q \in Queries, t \in SearchTypes :
       LET o == searchNotes(fs, q, t)
       IN /\ fs' = o.fs
          /\ Advance(o)
          /\ last' = Record("searchNotes", <<>>, <<>>, q, t, fs, o)
          /\ UNCHANGED <<written, tasks>>

\* the request handler returns the call's response to the client
Respond ==
  /\ last.op # "none"
  /\ last' = Idle(fs)
  /\ UNCHANGED <<fs, clock, written, tasks>>

Next == ReadNote \/ CreateNote \/ UpdateNote \/ SearchNotes \/ Respond

Spec == Init /\ [][Next]_vars

(***************************************************************************)
(* Properties                                                              *)
(***************************************************************************)

NoteOps == {"readNote", "createNote", "updateNote"}

\* the path filePath resolves to, lexically
Resolved(filePath) == PathResolve(VaultPath, filePath)

\* p is the vault directory or below it, compared segment by segment
InsideVault(p) ==
  /\ Len(Segments(VaultPath)) <= Len(Segments(p))
  /\ SubSeq(Segments(p), 1, Len(Segments(VaultPath))) = Segments(VaultPath)

\* the call in last left the whole tree as it found it
TreeUnchanged == fs = last.pre

\* C1: a readNote, createNote or updateNote on a path that resolves outside
\* the vault (on a segment boundary) fails with 'Access denied' and changes
\* nothing in the file system.
C1_OutsideDenied ==
  (last.op \in NoteOps /\ ~InsideVault(Resolved(last.path)))
    => (last.err = AccessDenied /\ TreeUnchanged)

\* the query compiles as a regular expression
Compiles(query) == RegexParse(query).ok

InvalidPattern(query) == Wrap("Search failed", Error("Invalid regex pattern", query))

\* a regex search with a query that does not compile
InvalidRegexSearch ==
  last.op = "searchNotes" /\ last.searchType = "regex" /\ ~Compiles(last.query)

\* C2: on every vault, a regex search with a query that does not compile
\* fails with the invalid-pattern error naming the query; it returns no
\* result list.
C2_InvalidRegexFails ==
  (InvalidRegexSearch /\ IsDir(last.pre, VaultPath)) => last.err = InvalidPattern(last.query)

\* C3: a regex search whose query does not compile makes no stat and no read
\* of a document before it fails.
C3_NoFileTouched ==
  (InvalidRegexSearch /\ IsError(last.err))
    => \A i \in 1..Len(last.calls) : last.calls[i].call \notin {"stat", "readFile"}

\* C4: createNote on a path the guard accepts, where a file exists, fails
\* with 'File already exists', and the whole tree, that file's content
\* included, is as before the call.
C4_CreateExisting ==
  (last.op = "createNote" /\ getFullPath(last.path).ok
     /\ IsFile(last.pre, Resolved(last.path)))
    => /\ last.err = Wrap("Failed to create note", Error("File already exists", last.path))
       /\ TreeUnchanged

\* a createNote on an existing note, with other content than the note's
C4_Witness ==
  /\ last.op = "createNote"
  /\ InsideVault(Resolved(last.path))
  /\ IsFile(last.pre, Resolved(last.path))
  /\ last.pre[Resolved(last.path)].bytes # Utf8Encode(last.content)
  /\ IsError(last.err)

\* C5: updateNote on a path the guard accepts, where no file exists, fails
\* with 'Failed to update note' (the file not accessible, when nothing is at
\* the path) and the whole tree is as before the call: nothing is created.
C5_UpdateMissing ==
  (last.op = "updateNote" /\ getFullPath(last.path).ok
     /\ ~IsFile(last.pre, Resolved(last.path)))
    => /\ IsError(last.err)
       /\ last.err.prefix[1] = "Failed to update note"
       /\ Resolved(last.path) \notin DOMAIN last.pre
            => last.err = Wrap("Failed to update note",
                               Error("File not accessible", Resolved(last.path)))
       /\ TreeUnchanged

\* an updateNote on a path of the vault where nothing exists
C5_Witness ==
  /\ last.op = "updateNote"
  /\ InsideVault(Resolved(last.path))
  /\ Resolved(last.path) \notin DOMAIN last.pre
  /\ IsDir(last.pre, Dirname(Resolved(last.path)))
  /\ IsError(last.err)

\* C7: when the guard refuses the path of a readNote, createNote or
\* updateNote, the call fails with the access-denied error itself, not
\* wrapped, and has made no file-system call.
C7_GuardFirst ==
  (last.op \in NoteOps /\ ~getFullPath(last.path).ok)
    => (last.err = AccessDenied /\ last.calls = <<>>)

\* each of the three methods refused a path
C7_Witness ==
  /\ last.op = "createNote"
  /\ ~getFullPath(last.path).ok
  /\ last.err = AccessDenied

\* the unit at position i of c is a surrogate with no partner beside it
IsUnpaired(c, i) ==
  \/ IsHighSurrogate(c[i]) /\ ~(i < Len(c) /\ IsLowSurrogate(c[i + 1]))
  \/ IsLowSurrogate(c[i]) /\ ~(i > 1 /\ IsHighSurrogate(c[i - 1]))

\* c with U+FFFD in the place of each unpaired surrogate
ReplaceUnpaired(c) == [i \in 1..Len(c) |-> IF IsUnpaired(c, i) THEN 65533 ELSE c[i]]

\* a readNote on a path of the vault that a createNote or updateNote has
\* written
ReadOfWritten ==
  /\ last.op = "readNote"
  /\ InsideVault(Resolved(last.path))
  /\ Resolved(last.path) \in DOMAIN written

\* C6 as claimed: readNote returns exactly the content given to the latest
\* createNote or updateNote on the path that succeeded.
C6_ReadsLastWritten ==
  ReadOfWritten => (last.err = NoError /\ last.text = written[Resolved(last.path)])

\* C6 amended: readNote returns the content given to the latest createNote or
\* updateNote on the path that succeeded, with U+FFFD in the place of each
\* unpaired surrogate of it; calls that failed in between change nothing.
C6_ReadsLastWrittenReplaced ==
  ReadOfWritten
    => (last.err = NoError /\ last.text = ReplaceUnpaired(written[Resolved(last.path)]))

\* a readNote of a note that was updated after it was created, returning a
\* content with a character outside the ASCII range unchanged
C6_Witness ==
  /\ ReadOfWritten
  /\ last.pre[Resolved(last.path)].birthtime < last.pre[Resolved(last.path)].mtime
  /\ written[Resolved(last.path)] = C_astral
  /\ last.text = C_astral

\* the regular files with the .md extension below the vault directory
EligibleDocs(f) ==
  {p \in DOMAIN f :
     /\ f[p].kind = "file"
     /\ InsideVault(p)
     /\ Len(Basename(p)) >= 3
     /\ SubSeq(Basename(p), Len(Basename(p)) - 2, Len(Basename(p))) = MdExtension}

\* s contains q, letters compared without regard to case
ContainsIgnoringCase(s, q) ==
  \E i \in 0..(Len(s) - Len(q)) : \A j \in 1..Len(q) : LowerUnit(s[i + j]) = LowerUnit(q[j])

\* the path of p relative to the vault
RelativeToVault(p) ==
  Join(SubSeq(Segments(p), Len(Segments(VaultPath)) + 1, Len(Segments(p))), <<Slash>>)

IndexIn(seq, x) == CHOOSE i \in 1..Len(seq) : seq[i] = x

\* the walk reaches file a before file b: where their paths part, a's
\* segment is listed before b's in their common directory
Precedes(f, a, b) ==
  LET sa == Segments(a)
      sb == Segments(b)
      k == CommonPrefixLen(sa, sb, 0)
      entries == f[FromSegments(SubSeq(sa, 1, k))].entries
  IN IndexIn(entries, sa[k + 1]) < IndexIn(entries, sb[k + 1])

\* a search of the given type that returned a result list
Searched(searchType) ==
  last.op = "searchNotes" /\ last.searchType = searchType /\ ~IsError(last.err)

\* the documents of the results, as absolute paths
ResultDocs == {Resolved(last.results[i].filePath) : i \in 1..Len(last.results)}

\* C8: a filename search returns exactly the eligible documents whose file
\* name contains the query case-insensitively, each once, in traversal order,
\* under its path relative to the vault.
C8_FilenameSearch ==
  Searched("filename") =>
    LET expected == {p \in EligibleDocs(last.pre) :
                       ContainsIgnoringCase(Basename(p), last.query)}
        R == last.results
    IN /\ ResultDocs = expected
       /\ Len(R) = Cardinality(expected)
       /\ \A i \in 1..Len(R) :
            /\ R[i].filePath = RelativeToVault(Resolved(R[i].filePath))
            /\ R[i].fileName = Basename(Resolved(R[i].filePath))
       /\ \A i, j \in 1..Len(R) :
            i < j => Precedes(last.pre, Resolved(R[i].filePath), Resolved(R[j].filePath))

\* a filename search that finds a note of the vault and a note of a
\* directory, by a query in another case than the name, and leaves files out
C8_Witness ==
  /\ Searched("filename")
  /\ last.query = Q_A
  /\ Len(last.results) >= 2
  /\ \E i \in 1..Len(last.results) : last.results[i].fileName = P_a
  /\ \E i \in 1..Len(last.results) : Len(Segments(Resolved(last.results[i].filePath))) > 2
  /\ Cardinality({p \in DOMAIN last.pre : last.pre[p].kind = "file" /\ InsideVault(p)})
       > Len(last.results)

\* the text of the document at p
ContentOf(f, p) == Utf8Decode(f[p].bytes)

\* the number of line breaks of c before position i
BreaksBefore(c, i) == Cardinality({j \in 1..(i - 1) : c[j] = Newline})

NumLines(c) == BreaksBefore(c, Len(c) + 1) + 1

\* the numbers of the lines of c that contain q, case-insensitively
MatchingLines(c, q) ==
  IF q = <<>> THEN 1..NumLines(c)
  ELSE {BreaksBefore(c, i) + 1 : i \in
          {i \in 1..(Len(c) - Len(q) + 1) :
             \A j \in 1..Len(q) :
               c[i + j - 1] # Newline /\ LowerUnit(c[i + j - 1]) = LowerUnit(q[j])}}

\* C9: a content search returns a document iff one of its lines contains the
\* query case-insensitively, and its matchedLineNumbers are the numbers of
\* all those lines, strictly ascending.
C9_ContentSearch ==
  Searched("content") =>
    LET R == last.results
    IN /\ ResultDocs = {p \in EligibleDocs(last.pre) :
                          MatchingLines(ContentOf(last.pre, p), last.query) # {}}
       /\ \A i \in 1..Len(R) :
            LET nums == R[i].matchedLineNumbers
            IN /\ nums.defined
               /\ \A k \in 1..(Len(nums.value) - 1) : nums.value[k] < nums.value[k + 1]
               /\ {nums.value[k] : k \in 1..Len(nums.value)}
                    = MatchingLines(ContentOf(last.pre, Resolved(R[i].filePath)), last.query)

\* a content search that returns a document with two matching lines, the
\* first not line 1, one matched in another case, and leaves a document out
C9_Witness ==
  /\ Searched("content")
  /\ last.query = Q_A
  /\ \E i \in 1..Len(last.results) : last.results[i].matchedLineNumbers.value = <<2, 4>>
  /\ EligibleDocs(last.pre) \ ResultDocs # {}

Least(S) == CHOOSE x \in S : \A y \in S : x <= y

\* the position of the first unit of line k of c
LineStart(c, k) ==
  IF k = 1 THEN 1
  ELSE 1 + CHOOSE i \in 1..Len(c) : c[i] = Newline /\ BreaksBefore(c, i) = k - 2

\* the position of the last unit of line k of c
LineEnd(c, k) ==
  IF k = NumLines(c) THEN Len(c)
  ELSE (CHOOSE i \in 1..Len(c) : c[i] = Newline /\ BreaksBefore(c, i) = k - 1) - 1

\* C10: in a content search matchedContent is the first matching line with
\* the line before and the line after it, where there are such lines, joined
\* by line breaks.
C10_FirstMatchContext ==
  Searched("content") =>
    \A i \in 1..Len(last.results) :
      LET c == ContentOf(last.pre, Resolved(last.results[i].filePath))
          first == Least(MatchingLines(c, last.query))
      IN last.results[i].matchedContent
           = Defined(SubSeq(c, LineStart(c, Max(1, first - 1)),
                            LineEnd(c, Min(NumLines(c), first + 1))))

\* a content search for the empty query: a document of three lines or more,
\* all matching, and an empty document, whose first matching line is empty
C10_Witness ==
  /\ Searched("content")
  /\ last.query = <<>>
  /\ \E i \in 1..Len(last.results) :
       /\ ContentOf(last.pre, Resolved(last.results[i].filePath)) = <<>>
       /\ last.results[i].matchedContent = Defined(<<>>)
  /\ \E i \in 1..Len(last.results) :
       Len(last.results[i].matchedLineNumbers.value) >= 3

\* the occurrences of the query, as a pattern, in the document at p
Occurrences(f, p, query) == MatchAll(RegexParse(query).items, ContentOf(f, p))

\* a regex search that returned the document at p of three occurrences or
\* more, one of the first three a repetition of another
RepeatedOccurrence(p) ==
  /\ Searched("regex")
  /\ p \in ResultDocs
  /\ Len(Occurrences(last.pre, p, last.query)) > 3
  /\ \E j, k \in 1..3 :
       j < k /\ Occurrences(last.pre, p, last.query)[j] = Occurrences(last.pre, p, last.query)[k]

\* C11 as claimed: in a regex search matchedContent is the first three
\* distinct occurrences of the pattern in the document, joined by ', '; no
\* occurrence text is in it twice.
C11_DistinctOccurrences ==
  Searched("regex") =>
    \A i \in 1..Len(last.results) :
      last.results[i].matchedContent
        = Defined(Join(Slice(Distinct(Occurrences(last.pre, Resolved(last.results[i].filePath),
                                                  last.query), <<>>), 0, 3),
                       CommaSpace))

\* C11 amended: a regex search returns the documents with an occurrence of
\* the pattern, and matchedContent is the first three occurrences in the
\* order they are found, repetitions kept, joined by ', ' (all of them when
\* there are fewer than three).
C11_FirstOccurrences ==
  Searched("regex") =>
    /\ ResultDocs = {p \in EligibleDocs(last.pre) :
                       Len(Occurrences(last.pre, p, last.query)) > 0}
    /\ \A i \in 1..Len(last.results) :
         LET occ == Occurrences(last.pre, Resolved(last.results[i].filePath), last.query)
         IN last.results[i].matchedContent
              = Defined(Join(SubSeq(occ, 1, Min(3, Len(occ))), CommaSpace))

\* a regex search for '#t' that returns a note with four occurrences, the
\* third the same text as the first, and a note with one occurrence
C11_Witness ==
  /\ last.query = Q_tag
  /\ \E p \in ResultDocs : RepeatedOccurrence(p)
  /\ \E p \in ResultDocs : Len(Occurrences(last.pre, p, last.query)) = 1

\* the query without one leading '#'
TagName(query) == IF Len(query) > 0 /\ query[1] = Hash THEN Tail(query) ELSE query

\* the query names a tag: word characters after at most one leading '#'
WordQuery(query) ==
  Len(TagName(query)) > 0 /\ \A i \in 1..Len(TagName(query)) : IsWordChar(TagName(query)[i])

\* tag is among tags, letters compared without regard to case
HasTag(tags, tag) ==
  \E i \in 1..Len(tags) :
    Len(tags[i]) = Len(tag) /\ \A j \in 1..Len(tag) : LowerUnit(tags[i][j]) = LowerUnit(tag[j])

\* C12: a tag search for a query of word characters returns only documents
\* whose tags field has the searched tag '#q', case-insensitively, and
\* returns every document whose tags have it.
C12_TagSearch ==
  (Searched("tag") /\ WordQuery(last.query)) =>
    /\ \A i \in 1..Len(last.results) :
         HasTag(last.results[i].tags, <<Hash>> \o TagName(last.query))
    /\ \A p \in EligibleDocs(last.pre) :
         HasTag(extractTags(ContentOf(last.pre, p)), <<Hash>> \o TagName(last.query))
           => p \in ResultDocs

FailureOf(f, c) ==
  CASE c.call = "readdir" ->
         IF IsDir(f, c.path) THEN "" ELSE IF c.path \in DOMAIN f THEN "ENOTDIR" ELSE "ENOENT"
    [] c.call = "stat" -> IF c.path \in DOMAIN f THEN "" ELSE "ENOENT"
    [] c.call = "readFile" ->
         IF c.path \notin DOMAIN f THEN "ENOENT"
         ELSE IF f[c.path].kind = "dir" THEN "EISDIR"
         ELSE IF f[c.path].readable THEN "" ELSE "EACCES"
    [] OTHER -> ""

\* the documents that cannot be read
Unreadable(f) == {p \in EligibleDocs(f) : ~f[p].readable}

\* C14: a searchNotes call one of whose readdir, stat or readFile calls
\* fails (the vault directory missing, a document unreadable) fails with
\* 'Search failed' wrapping that failure and returns no result list; and
\* every search fails so when the vault directory is missing or one
\* document cannot be read.
C14_AllOrNothing ==
  last.op = "searchNotes" =>
    /\ \A i \in 1..Len(last.calls) :
         FailureOf(last.pre, last.calls[i]) # "" =>
           /\ last.err = Wrap("Search failed",
                              Error(FailureOf(last.pre, last.calls[i]), last.calls[i].path))
           /\ last.results = <<>>
    /\ (~IsDir(last.pre, VaultPath) \/ Unreadable(last.pre) # {})
         => (IsError(last.err) /\ last.err.prefix[1] = "Search failed" /\ last.results = <<>>)

\* a search that failed at a document that cannot be read, after a document
\* before it had matched
C14_Witness ==
  /\ last.op = "searchNotes"
  /\ last.err.prefix = <<"Search failed", "EACCES">>
  /\ \E i, j \in 1..Len(last.calls) :
       /\ i < j
       /\ last.calls[i].call = "readFile"
       /\ last.calls[j].call = "readFile"
       /\ FailureOf(last.pre, last.calls[j]) = "EACCES"
       /\ processFileForSearch(last.pre, RelativeToVault(last.calls[i].path), last.query,
                               last.searchType).found

(***************************************************************************)
(* Concurrent calls.  The request handler awaits each call, but the server *)
(* takes the next request while one is pending, so the methods run         *)
(* interleaved: a call runs to its next await, and the file-system call it *)
(* awaits completes at any later time.  tasks[i] is the i-th call: its     *)
(* arguments, the await it is at (pc) and its local variables.  One action *)
(* is one file-system call completing and the code after it up to the next *)
(* await.  fs.writeFile is an open with the flag 'w' (the file created or  *)
(* truncated) and then the write of the data.  The readdir calls of        *)
(* getAllMarkdownFiles complete in one step.                               *)
(***************************************************************************)

\* the number of calls that run concurrently
MaxTasks == 2

\* the filePath and content arguments of the concurrent calls
ConcPaths == {P_a, P_dA}
ConcContents == {C_tag, C_astral}

\* a call at the await pc.  over and version are history: whether the call's
\* open found a file at its path, and for each result what fs.stat would
\* have said of the file at the moment fs.readFile read it
Task(op, filePath, content, query, searchType, pc) ==
  [op |-> op, path |-> filePath, content |-> content, query |-> query,
   searchType |-> searchType, pc |-> pc, files |-> <<>>, i |-> 1,
   stats |-> FsStat(<<>>, <<>>), results |-> <<>>, err |-> NoError,
   over |-> FALSE, version |-> <<>>]

\* the call has returned, or thrown e
Finish(t, e) == [t EXCEPT !.pc = "done", !.err = e]

\* the resolved path of the call's filePath
FullPath(t) == getFullPath(t.path).path

InitConc ==
  /\ fs \in {TreeEmptyVault, TreeNotes}
  /\ clock = 0
  /\ last = Idle(fs)
  /\ written = <<>>
  /\ tasks = [i \in 1..MaxTasks |-> Task("none", <<>>, <<>>, <<>>, "", "idle")]

\* the i-th call has not been made, the calls before it have: the calls are
\* numbered in the order they are made
Callable(i) == tasks[i].pc = "idle" /\ \A j \in 1..(i - 1) : tasks[j].pc # "idle"

\* the call i is made as t, or goes on as t, the tree now f
Goes(i, t, f) ==
  /\ tasks' = [tasks EXCEPT ![i] = t]
  /\ fs' = f
  /\ clock' = IF f # fs THEN clock + 1 ELSE clock
  /\ UNCHANGED <<last, written>>

\* createNote is called: getFullPath, then fs.mkdir is awaited
CreateNoteCall(i) ==
  /\ Callable(i)
  /\ \E p \in ConcPaths, c \in ConcContents :
       Goes(i, IF getFullPath(p).ok THEN Task("createNote", p, c, <<>>, "", "mkdir")
               ELSE Finish(Task("createNote", p, c, <<>>, "", "done"), AccessDenied),
            fs)

\* ensureDirectoryExists completes; fs.access is awaited
CreateMkdir(i) ==
  /\ tasks[i].op = "createNote" /\ tasks[i].pc = "mkdir"
  /\ LET dir == ensureDirectoryExists(fs, Dirname(FullPath(tasks[i])), clock + 1)
     IN Goes(i, IF IsError(dir.err)
                THEN Finish(tasks[i], Wrap("Failed to create note", dir.err))
                ELSE [tasks[i] EXCEPT !.pc = "access"],
             dir.fs)

\* fileExists completes; the call throws or fs.writeFile is awaited
CreateAccess(i) ==
  /\ tasks[i].op = "createNote" /\ tasks[i].pc = "access"
  /\ Goes(i, IF fileExists(fs, FullPath(tasks[i]))
             THEN Finish(tasks[i], Wrap("Failed to create note",
                                        Error("File already exists", tasks[i].path)))
             ELSE [tasks[i] EXCEPT !.pc = "open"],
          fs)

\* fs.writeFile has opened the file of the call i: created or truncated
WriteOpen(i, what, write) ==
  Goes(i, IF ~write.ok THEN Finish(tasks[i], Wrap(what, Error(write.code, FullPath(tasks[i]))))
          ELSE [tasks[i] EXCEPT !.pc = "data", !.over = IsFile(fs, FullPath(tasks[i]))],
       write.fs)

\* fs.writeFile has written the data of the call i, which returns
WriteData(i, what, write) ==
  Goes(i, IF ~write.ok THEN Finish(tasks[i], Wrap(what, Error(write.code, FullPath(tasks[i]))))
          ELSE Finish(tasks[i], NoError),
       write.fs)

\* createNote's fs.writeFile opens the file
CreateOpen(i) ==
  /\ tasks[i].op = "createNote" /\ tasks[i].pc = "open"
  /\ WriteOpen(i, "Failed to create note", FsWriteFile(fs, FullPath(tasks[i]), <<>>, clock + 1))

\* createNote's fs.writeFile writes the content
CreateData(i) ==
  /\ tasks[i].op = "createNote" /\ tasks[i].pc = "data"
  /\ WriteData(i, "Failed to create note",
               FsWriteFile(fs, FullPath(tasks[i]), tasks[i].content, clock + 1))

\* updateNote is called: getFullPath, then fs.access is awaited
UpdateNoteCall(i) ==
  /\ Callable(i)
  /\ \E p \in ConcPaths, c \in ConcContents :
       Goes(i, IF getFullPath(p).ok THEN Task("updateNote", p, c, <<>>, "", "access")
               ELSE Finish(Task("updateNote", p, c, <<>>, "", "done"), AccessDenied),
            fs)

\* validateFileAccess completes; the call throws or fs.writeFile is awaited
UpdateAccess(i) ==
  /\ tasks[i].op = "updateNote" /\ tasks[i].pc = "access"
  /\ Goes(i, IF IsError(validateFileAccess(fs, FullPath(tasks[i])))
             THEN Finish(tasks[i], Wrap("Failed to update note",
                                        validateFileAccess(fs, FullPath(tasks[i]))))
             ELSE [tasks[i] EXCEPT !.pc = "open"],
          fs)

\* updateNote's fs.writeFile opens the file
UpdateOpen(i) ==
  /\ tasks[i].op = "updateNote" /\ tasks[i].pc = "open"
  /\ WriteOpen(i, "Failed to update note", FsWriteFile(fs, FullPath(tasks[i]), <<>>, clock + 1))

\* updateNote's fs.writeFile writes the content
UpdateData(i) ==
  /\ tasks[i].op = "updateNote" /\ tasks[i].pc = "data"
  /\ WriteData(i, "Failed to update note",
               FsWriteFile(fs, FullPath(tasks[i]), tasks[i].content, clock + 1))

\* searchNotes is called: getAllMarkdownFiles is awaited
SearchNotesCall(i) ==
  /\ Callable(i)
  /\ \E s \in {[query |-> Q_A, searchType |-> "content"],
               [query |-> Q_tag, searchType |-> "tag"]} :
       Goes(i, Task("searchNotes", <<>>, <<>>, s.query, s.searchType, "walk"), fs)

\* searchNotes after getAllMarkdownFiles: the loop is entered, or left at once
Walking(t, walk) ==
  IF ~walk.ok THEN Finish(t, Wrap("Search failed", Error(walk.code, VaultPath)))
  ELSE IF walk.files = <<>> THEN Finish(t, NoError)
  ELSE [t EXCEPT !.files = walk.files, !.pc = "stat"]

\* getAllMarkdownFiles completes
SearchWalk(i) ==
  /\ tasks[i].op = "searchNotes" /\ tasks[i].pc = "walk"
  /\ Goes(i, Walking(tasks[i], getAllMarkdownFiles(fs)), fs)

\* processFileForSearch up to fs.stat, of the document the loop is at
Statting(t, full, stats) ==
  IF ~full.ok THEN Finish(t, Wrap("Search failed", AccessDenied))
  ELSE IF ~stats.ok THEN Finish(t, Wrap("Search failed", Error("ENOENT", full.path)))
  ELSE [t EXCEPT !.stats = stats, !.pc = "read"]

\* fs.stat of the document completes; fs.readFile is awaited
SearchStat(i) ==
  /\ tasks[i].op = "searchNotes" /\ tasks[i].pc = "stat"
  /\ Goes(i, Statting(tasks[i], getFullPath(tasks[i].files[tasks[i].i]),
                      FsStat(fs, getFullPath(tasks[i].files[tasks[i].i]).path)),
          fs)

\* processFileForSearch from fs.readFile on, r what it leaves, and the loop
\* of searchNotes to the next document; now is the file as it is read
Reading(t, r, now) ==
  IF IsError(r.err) THEN Finish(t, Wrap("Search failed", r.err))
  ELSE [t EXCEPT !.results = IF r.found THEN Append(@, r.result) ELSE @,
                 !.version = IF r.found THEN Append(@, now) ELSE @,
                 !.i = @ + 1,
                 !.pc = IF t.i = Len(t.files) THEN "done" ELSE "stat"]

\* fs.readFile of the document completes
SearchRead(i) ==
  /\ tasks[i].op = "searchNotes" /\ tasks[i].pc = "read"
  /\ Goes(i, Reading(tasks[i],
                     processFileRead(tasks[i].files[tasks[i].i], tasks[i].query,
                                     tasks[i].searchType,
                                     getFullPath(tasks[i].files[tasks[i].i]).path,
                                     tasks[i].stats,
                                     FsReadFile(fs, getFullPath(tasks[i].files[tasks[i].i]).path)),
                     FsStat(fs, getFullPath(tasks[i].files[tasks[i].i]).path)),
          fs)

NextConc ==
  \E i \in 1..MaxTasks :
    \/ CreateNoteCall(i) \/ CreateMkdir(i) \/ CreateAccess(i) \/ CreateOpen(i) \/ CreateData(i)
    \/ UpdateNoteCall(i) \/ UpdateAccess(i) \/ UpdateOpen(i) \/ UpdateData(i)
    \/ SearchNotesCall(i) \/ SearchWalk(i) \/ SearchStat(i) \/ SearchRead(i)

SpecConc == InitConc /\ [][NextConc]_vars

\* the calls of the method op that have returned without an error
Succeeded(op) ==
  {i \in 1..MaxTasks : tasks[i].op = op /\ tasks[i].pc = "done" /\ tasks[i].err = NoError}

\* C15: of the concurrent createNote calls on one path where nothing was
\* before them, at most one succeeds and each other that has ended failed
\* with 'File already exists'; and no createNote opens its file for writing
\* where a file is present.
C15_CreateExclusive ==
  /\ \A i, j \in 1..MaxTasks :
       (/\ i # j
        /\ tasks[i].op = "createNote"
        /\ tasks[j].op = "createNote"
        /\ FullPath(tasks[i]) = FullPath(tasks[j])
        /\ FullPath(tasks[i]) \notin DOMAIN last.pre
        /\ i \in Succeeded("createNote")
        /\ tasks[j].pc = "done")
         => tasks[j].err = Wrap("Failed to create note",
                                Error("File already exists", tasks[j].path))
  /\ \A i \in 1..MaxTasks : tasks[i].op = "createNote" => ~tasks[i].over

\* C16: each result of a search has the fileSize and the updatedAt of the
\* file as it was when its content was read.
C16_SingleVersion ==
  \A i \in 1..MaxTasks :
    tasks[i].op = "searchNotes" =>
      \A k \in 1..Len(tasks[i].results) :
        /\ tasks[i].results[k].fileSize = tasks[i].version[k].size
        /\ tasks[i].results[k].updatedAt = tasks[i].version[k].mtime

====
